---- MODULE Spec2Model ----
(***************************************************************************)
(* Task-progress tracking of the Code:P extension (extension.ts):          *)
(* the checklist parser, the process-wide active task, the progress        *)
(* snapshot, the status bar, and the start / complete / reconcile          *)
(* handlers, over tasks documents that live on disk and in editor buffers; *)
(* further the configuration injection and the workflow-completeness test  *)
(* of extension.ts, the ConfigurationManager's cache, and truncateContent. *)
(***************************************************************************)
EXTENDS Integers, Sequences, FiniteSets, TLC

(* ---------------------------- bounds ---------------------------------- *)

\* Longest tasks document, in lines.
MaxLines == 2

\* Most tasks of a snapshot the status bar is shown for.
MaxTasks == 40

\* Most handlers that are suspended at an await at one time.
MaxRunning == 2

\* Longest content truncateContent is run on, and the largest maxLength.
MaxContent == 4

\* Longest suffix truncateContent is given.
MaxSuffix == 3

\* JS null in the number | null and TaskState | null fields.
Null == -1

Features == {"f", "g"}

\* Task indices a start request may carry: every index of a longest document
\* and one index past its end.
Indices == 0 .. MaxLines

(* ---------------------------- text ------------------------------------ *)

\* The lines the models write documents with.
Blank     == ""
TodoA     == "- [ ] a"
DoneA     == "- [x] a"
TodoNoTxt == "- [ ]"
DoneNoTxt == "- [x]"

Palette == { Blank, TodoA, DoneA, TodoNoTxt, DoneNoTxt }

\* Further lines a tasks document may hold, which the parser is run on.
Indented  == "  - [x] a"
Tight     == "-[ ]a"
UpperX    == "- [X] a"
TabFlag   == "- [\t] a"
DashFlag  == "- [-] a"
Starred   == "* [ ] a"
Prose     == "text"
TrailingS == "- [ ] "
WithCR    == "- [x] a\r"

\* An indented checklist line that is not completed.
IndentedTodo == "  - [ ] a"

WireLines ==
    { Indented, Tight, UpperX, TabFlag, DashFlag, Starred, Prose, TrailingS, WithCR }

\* The characters of each line, one one-character string per character.
Chars ==
    (Blank     :> << >>) @@
    (TodoA     :> << "-", " ", "[", " ", "]", " ", "a" >>) @@
    (DoneA     :> << "-", " ", "[", "x", "]", " ", "a" >>) @@
    (TodoNoTxt :> << "-", " ", "[", " ", "]" >>) @@
    (DoneNoTxt :> << "-", " ", "[", "x", "]" >>) @@
    (Indented  :> << " ", " ", "-", " ", "[", "x", "]", " ", "a" >>) @@
    (Tight     :> << "-", "[", " ", "]", "a" >>) @@
    (UpperX    :> << "-", " ", "[", "X", "]", " ", "a" >>) @@
    (TabFlag   :> << "-", " ", "[", "\t", "]", " ", "a" >>) @@
    (DashFlag  :> << "-", " ", "[", "-", "]", " ", "a" >>) @@
    (Starred   :> << "*", " ", "[", " ", "]", " ", "a" >>) @@
    (Prose     :> << "t", "e", "x", "t" >>) @@
    (TrailingS :> << "-", " ", "[", " ", "]", " " >>) @@
    (WithCR    :> << "-", " ", "[", "x", "]", " ", "a", "\r" >>) @@
    (IndentedTodo :> << " ", " ", "-", " ", "[", " ", "]", " ", "a" >>)

\* The line that has the characters cs.
Line(cs) == CHOOSE l \in DOMAIN Chars : Chars[l] = cs

\* The sequences over S of 1 .. n elements.
RECURSIVE SeqsUpTo(_, _)
SeqsUpTo(S, n) ==
    IF n <= 1 THEN { << x >> : x \in S }
    ELSE LET shorter == SeqsUpTo(S, n - 1)
         IN  shorter \cup { Append(s, x) : s \in { t \in shorter : Len(t) = n - 1 }, x \in S }

\* Documents of well-formed checklist lines, and the empty document (whose
\* split('\n') is one empty line).
PlainTexts == { << Blank >> } \cup SeqsUpTo({ TodoA, DoneA }, MaxLines)

\* JS \s, restricted to the whitespace the lines are written with.
IsSpace(c) == c \in { " ", "\t" }

\* JS . (no s flag): any character but a line terminator.
IsDot(c) == c \notin { "\n", "\r" }

\* Position of the first character at or after k that is not whitespace
\* (Len(s) + 1 when there is none): the end of a greedy \s* begun at k.
RECURSIVE SkipSpace(_, _)
SkipSpace(s, k) ==
    IF k <= Len(s) /\ IsSpace(s[k]) THEN SkipSpace(s, k + 1) ELSE k

\* Position of the "]" when s starts with ^\s*-\s*\[(flag)\] for a flag
\* character in flags, 0 when it does not.
MatchHead(s, flags) ==
    LET a == SkipSpace(s, 1)
    IN  IF a <= Len(s) /\ s[a] = "-"
        THEN LET b == SkipSpace(s, a + 1)
             IN  IF /\ b + 2 <= Len(s)
                    /\ s[b] = "["
                    /\ s[b + 1] \in flags
                    /\ s[b + 2] = "]"
                 THEN b + 2
                 ELSE 0
        ELSE 0

\* s.slice(k - 1): the characters of s from position k on.
From(s, k) == SubSeq(s, k, Len(s))

\* String.prototype.trim on a line.
RECURSIVE TrimEnd(_)
TrimEnd(s) ==
    IF Len(s) > 0 /\ IsSpace(s[Len(s)]) THEN TrimEnd(SubSeq(s, 1, Len(s) - 1)) ELSE s

Trim(s) == TrimEnd(From(s, SkipSpace(s, 1)))

\* taskMatch with a case-insensitive flag: /^\s*-\s*\[([xX ])\]\s*(.+)$/.
taskMatchAnyCase(line) ==
    LET s == Chars[line]
        p == MatchHead(s, { "x", "X", " " })
    IN  IF /\ p > 0
           /\ p < Len(s)
           /\ \A k \in (p + 1) .. Len(s) : IsDot(s[k])
        THEN p
        ELSE 0

\* taskMatch asking for whitespace after "]": /^\s*-\s*\[([x ])\]\s+(.+)$/.
taskMatchSpaced(line) ==
    LET s == Chars[line]
        p == MatchHead(s, { "x", " " })
    IN  IF /\ p > 0
           /\ p + 1 < Len(s)
           /\ IsSpace(s[p + 1])
           /\ \A k \in (p + 1) .. Len(s) : IsDot(s[k])
        THEN p
        ELSE 0

\* line.match(/^\s*-\s*\[([x ])\]\s*(.+)$/): the position of "]" when the
\* line matches, 0 when it does not.  \s*(.+)$ needs at least one character
\* after "]", none of them a line terminator.
taskMatch(line) ==
    LET s == Chars[line]
        p == MatchHead(s, { "x", " " })
    IN  IF /\ p > 0
           /\ p < Len(s)
           /\ \A k \in (p + 1) .. Len(s) : IsDot(s[k])
        THEN p
        ELSE 0

\* TaskItemOf numbering the items by their lines.
TaskItemOfByLine(line, n, lineNo) ==
    LET p == taskMatch(line)
    IN  [ index     |-> lineNo,
          text      |-> Trim(From(Chars[line], p + 1)),
          completed |-> (Chars[line][p - 1] = "x"),
          line      |-> lineNo ]

\* The TaskItem pushed for a matching line.
TaskItemOf(line, n, lineNo) ==
    LET p == taskMatch(line)
    IN  [ index     |-> n,
          text      |-> Trim(From(Chars[line], p + 1)),
          completed |-> (Chars[line][p - 1] = "x"),
          line      |-> lineNo ]

\* lines.forEach of parseTasksFromFile, from line k (1-based here) on, with
\* the tasks collected so far.
RECURSIVE parseLines(_, _, _)
parseLines(lines, k, tasks) ==
    IF k > Len(lines) THEN tasks
    ELSE IF taskMatch(lines[k]) > 0
         THEN parseLines(lines, k + 1,
                         Append(tasks, TaskItemOf(lines[k], Len(tasks), k - 1)))
         ELSE parseLines(lines, k + 1, tasks)

\* The parse of every document of the models, computed once.
ParseTable == [ t \in SeqsUpTo(Palette, MaxLines) |-> parseLines(t, 1, << >>) ]

\* parseTasksFromFile on a file of the given lines.
parseTasksFromFile(lines) == ParseTable[lines]

\* completedCount taking every task for a completed one.
completedCountAll(tasks) == Len(tasks)

\* tasks.filter(task => task.completed).length
RECURSIVE completedCount(_)
completedCount(tasks) ==
    IF tasks = << >> THEN 0
    ELSE (IF Head(tasks).completed THEN 1 ELSE 0) + completedCount(Tail(tasks))

\* tasks[i]?.completed as a truth value: false for an index outside the list.
ItemCompleted(tasks, i) == i >= 0 /\ i < Len(tasks) /\ tasks[i + 1].completed

(* ------------------------- marking a task ----------------------------- *)

\* The for loop of markTaskCompleted from line k (1-based here) on, with
\* taskCount checklist heads passed so far: the 1-based number of the line
\* the edit replaces, 0 when the loop ends without an edit.
RECURSIVE markTarget(_, _, _, _)
markTarget(lines, taskIndex, k, taskCount) ==
    IF k > Len(lines) THEN 0
    ELSE IF MatchHead(Chars[lines[k]], { "x", " " }) > 0
         THEN IF taskCount = taskIndex
              THEN k
              ELSE markTarget(lines, taskIndex, k + 1, taskCount + 1)
         ELSE markTarget(lines, taskIndex, k + 1, taskCount)

\* lines[i].replace(/^\s*-\s*\[\s\]/, '- [x]')
markedLine(line) ==
    LET s == Chars[line]
        p == MatchHead(s, { " ", "\t" })
    IN  IF p > 0 THEN Line(<< "-", " ", "[", "x", "]" >> \o From(s, p + 1)) ELSE line

\* The buffer text once the WorkspaceEdit of markTaskCompleted is applied.
markedText(lines, taskIndex) ==
    LET t == markTarget(lines, taskIndex, 1, 0)
    IN  IF t = 0 THEN lines ELSE [ lines EXCEPT ![t] = markedLine(lines[t]) ]

(* ---------------------------- state ----------------------------------- *)

VARIABLES
    disk,              \* feature -> its 03-tasks file in the workspace folder
    buf,               \* feature -> the editor's text document of that file
    currentTaskState,  \* the process-wide active task, NoTask for null
    taskProgress,      \* the published progress snapshot
    statusBar,         \* what updateStatusBar last showed
    last,              \* the step that ran last and, for a handler, how it ended
    running,           \* the handlers that are suspended at an await
    configCache,       \* ConfigurationManager: the workspace roots that have a cached config
    isInitialized      \* ConfigurationManager: initialize() has completed

vars == << disk, buf, currentTaskState, taskProgress, statusBar, last, running, configCache, isInitialized >>

\* currentTaskState === null
NoTask == [ feature |-> "", taskIndex |-> Null ]

TaskState(f, i) == [ feature |-> f, taskIndex |-> i ]

NoFile == [ exists |-> FALSE, lines |-> << Blank >> ]
File(lines) == [ exists |-> TRUE, lines |-> lines ]

Closed == [ open |-> FALSE, lines |-> << Blank >> ]
Open(lines) == [ open |-> TRUE, lines |-> lines ]

Ran(op, f, outcome) == [ op |-> op, feature |-> f, outcome |-> outcome ]

(* --------------------------- presenter -------------------------------- *)

\* JS numbers are IEEE 754 doubles: 53 significant bits, results rounded to
\* nearest, ties to even.  The 52 bits after the leading 1 are kept as three
\* digits of 20, 20 and 12 bits, so that every step stays in small integers.
RECURSIVE Pow2(_)
Pow2(z) == IF z = 0 THEN 1 ELSE 2 * Pow2(z - 1)

\* The smallest z with c * 2^z >= t, for 0 < c <= t.
RECURSIVE Normalise(_, _)
Normalise(c, t) == IF c >= t THEN 0 ELSE 1 + Normalise(2 * c, t)

\* digit + 1 when carry, in a digit of the given number of bits: the digit
\* and the carry out.
Carried(digit, bits, carry) ==
    [ digit |-> IF carry THEN (digit + 1) % Pow2(bits) ELSE digit,
      carry |-> carry /\ digit + 1 = Pow2(bits) ]

\* c / t in doubles, for integers 0 < c <= t:
\* (1 + f1 / 2^20 + f2 / 2^40 + g / 2^52) * 2^-z.
DoubleDivide(c, t) ==
    LET z     == Normalise(c, t)
        r0    == (c * Pow2(z)) - t
        d1    == (r0 * Pow2(20)) \div t
        r1    == (r0 * Pow2(20)) % t
        d2    == (r1 * Pow2(20)) \div t
        r2    == (r1 * Pow2(20)) % t
        d3    == (r2 * Pow2(20)) \div t
        r3    == (r2 * Pow2(20)) % t
        guard == (d3 \div Pow2(7)) % 2
        tail  == (d3 % Pow2(7)) # 0 \/ r3 # 0
        up    == guard = 1 /\ (tail \/ (d3 \div Pow2(8)) % 2 = 1)
        g     == Carried(d3 \div Pow2(8), 12, up)
        f2    == Carried(d2, 20, g.carry)
        f1    == Carried(d1, 20, f2.carry)
    IN  [ z  |-> IF f1.carry THEN z - 1 ELSE z,
          f1 |-> f1.digit, f2 |-> f2.digit, g |-> g.digit ]

\* q * 100 in doubles, for a double q of DoubleDivide:
\* (h + f1 / 2^20 + f2 / 2^40 + low / 2^(52 - d)) * 2^-z, where h holds the
\* leading 7 or 8 bits and d = 6 or 7 bits were rounded away.
DoubleTimes100(q) ==
    LET pg    == q.g * 100
        pf2   == (q.f2 * 100) + (pg \div Pow2(12))
        pf1   == (q.f1 * 100) + (pf2 \div Pow2(20))
        h     == 100 + (pf1 \div Pow2(20))
        d     == IF h >= Pow2(7) THEN 7 ELSE 6
        g3    == pg % Pow2(12)
        guard == (g3 \div Pow2(d - 1)) % 2
        tail  == (g3 % Pow2(d - 1)) # 0
        up    == guard = 1 /\ (tail \/ (g3 \div Pow2(d)) % 2 = 1)
        low   == Carried(g3 \div Pow2(d), 12 - d, up)
        f2    == Carried(pf2 % Pow2(20), 20, low.carry)
        f1    == Carried(pf1 % Pow2(20), 20, f2.carry)
    IN  [ z  |-> q.z,
          h  |-> IF f1.carry THEN h + 1 ELSE h,
          f1 |-> f1.digit, f2 |-> f2.digit, low |-> low.digit, d |-> d ]

\* Math.round(x) for a double x of DoubleTimes100: the integer part, plus
\* one when the fraction is a half or more.
MathRound(x) ==
    IF x.z = 0
    THEN x.h + (x.f1 \div Pow2(19))
    ELSE (x.h \div Pow2(x.z)) + ((x.h \div Pow2(x.z - 1)) % 2)

\* Math.round((completedTasks / totalTasks) * 100) for every snapshot of the
\* models, computed once.
PercentTable ==
    [ t \in 1 .. MaxTasks |->
        [ c \in 0 .. t |->
            IF c = 0 THEN 0 ELSE MathRound(DoubleTimes100(DoubleDivide(c, t))) ] ]

\* Math.round((completedTasks / totalTasks) * 100), totalTasks > 0.
progressPercent(completedTasks, totalTasks) == PercentTable[totalTasks][completedTasks]

\* updateStatusBar deciding isImplementing by the snapshot's currentTask.
updateStatusBarBySnapshot(tp, cts) ==
    IF tp.totalTasks = 0
    THEN [ ready |-> TRUE, percent |-> 0, isImplementing |-> FALSE ]
    ELSE [ ready          |-> FALSE,
           percent        |-> progressPercent(tp.completedTasks, tp.totalTasks),
           isImplementing |-> (tp.currentTask # Null /\ tp.completedTasks < tp.totalTasks) ]

\* updateStatusBar without the early return for a snapshot of no tasks.
updateStatusBarNoReady(tp, cts) ==
    [ ready          |-> FALSE,
      percent        |-> IF tp.totalTasks = 0 THEN 0
                         ELSE progressPercent(tp.completedTasks, tp.totalTasks),
      isImplementing |-> (cts # NoTask /\ tp.completedTasks < tp.totalTasks) ]

\* updateStatusBar: the status bar shown for snapshot tp while the active
\* task is cts.
updateStatusBar(tp, cts) ==
    IF tp.totalTasks = 0
    THEN [ ready |-> TRUE, percent |-> 0, isImplementing |-> FALSE ]
    ELSE [ ready          |-> FALSE,
           percent        |-> progressPercent(tp.completedTasks, tp.totalTasks),
           isImplementing |-> (cts # NoTask /\ tp.completedTasks < tp.totalTasks) ]

(* --------------------------- tracker ---------------------------------- *)

\* currentTaskState?.taskIndex || null
currentTaskOf(cts) ==
    IF cts = NoTask \/ cts.taskIndex = 0 THEN Null ELSE cts.taskIndex

\* autoClears with the task number of the log lines for the index.
autoClearsOneBased(cts, tasks) == cts # NoTask /\ ItemCompleted(tasks, cts.taskIndex + 1)

\* The auto-clear test of updateTaskProgress.
autoClears(cts, tasks) == cts # NoTask /\ ItemCompleted(tasks, cts.taskIndex)

\* updateTaskProgress(feature) started with active task cts, snapshot tp and
\* status bar sb over the files dsk: the three as it leaves them.
updateTaskProgress(feature, cts, tp, sb, dsk) ==
    IF ~ dsk[feature].exists
    THEN [ cts |-> cts, tp |-> tp, sb |-> sb, cleared |-> FALSE ]
    ELSE LET tasks  == parseTasksFromFile(dsk[feature].lines)
             clear  == autoClears(cts, tasks)
             cts2   == IF clear THEN NoTask ELSE cts
             tp2    == [ totalTasks     |-> Len(tasks),
                         completedTasks |-> completedCount(tasks),
                         currentTask    |-> currentTaskOf(cts2) ]
         IN  [ cts |-> cts2, tp |-> tp2, sb |-> updateStatusBar(tp2, cts2),
               cleared |-> clear ]

Publish(r) ==
    /\ currentTaskState' = r.cts
    /\ taskProgress' = r.tp
    /\ statusBar' = r.sb

\* startRefused with the task number of the log lines for the index.
startRefusedOneBased(feature, taskIndex, dsk) ==
    /\ dsk[feature].exists
    /\ ItemCompleted(parseTasksFromFile(dsk[feature].lines), taskIndex + 1)

\* The safety check of startTaskImplementation: the request is refused.
startRefused(feature, taskIndex, dsk) ==
    /\ dsk[feature].exists
    /\ ItemCompleted(parseTasksFromFile(dsk[feature].lines), taskIndex)

\* startTaskImplementation refusing a request while a task is active.
startTaskOnlyWhenIdle(feature, taskIndex) ==
    IF startRefused(feature, taskIndex, disk) \/ currentTaskState # NoTask
    THEN /\ UNCHANGED << disk, buf, currentTaskState, taskProgress, statusBar >>
         /\ last' = Ran("start", feature, "refused")
    ELSE LET r == updateTaskProgress(feature, TaskState(feature, taskIndex),
                                     taskProgress, statusBar, disk)
         IN  /\ Publish(r)
             /\ UNCHANGED << disk, buf >>
             /\ last' = Ran("start", feature, "started")

\* codep.startTask
startTaskImplementation(feature, taskIndex) ==
    IF startRefused(feature, taskIndex, disk)
    THEN /\ UNCHANGED << disk, buf, currentTaskState, taskProgress, statusBar >>
         /\ last' = Ran("start", feature, "refused")
    ELSE LET r == updateTaskProgress(feature, TaskState(feature, taskIndex),
                                     taskProgress, statusBar, disk)
         IN  /\ Publish(r)
             /\ UNCHANGED << disk, buf >>
             /\ last' = Ran("start", feature, "started")

\* markTaskCompleted reaches applyEdit with an edit that replaces a line.
markEdits(feature, taskIndex) ==
    /\ disk[feature].exists
    /\ buf[feature].open
    /\ markTarget(buf[feature].lines, taskIndex, 1, 0) > 0

\* markTaskCompleted: applied tells whether applyEdit applies the edit.
markTaskCompleted(feature, taskIndex, applied) ==
    IF markEdits(feature, taskIndex) /\ applied
    THEN buf' = [ buf EXCEPT ![feature] =
                     Open(markedText(buf[feature].lines, taskIndex)) ]
    ELSE buf' = buf

\* completeTaskImplementation without the early return of the idle state: it
\* publishes a snapshot of no tasks.
completeTaskWithoutIdleReturn(applied) ==
    IF currentTaskState = NoTask
    THEN LET tp == [ totalTasks |-> 0, completedTasks |-> 0, currentTask |-> Null ]
         IN  /\ Publish([ cts |-> NoTask, tp |-> tp, sb |-> updateStatusBar(tp, NoTask) ])
             /\ UNCHANGED << disk, buf >>
             /\ last' = Ran("complete", "", "idle")
    ELSE LET feature   == currentTaskState.feature
             taskIndex == currentTaskState.taskIndex
             r == updateTaskProgress(feature, NoTask, taskProgress, statusBar, disk)
         IN  /\ markTaskCompleted(feature, taskIndex, applied)
             /\ Publish(r)
             /\ UNCHANGED disk
             /\ last' = Ran("complete", feature,
                            IF markEdits(feature, taskIndex) /\ applied
                            THEN "written" ELSE "unwritten")

\* codep.completeTask
completeTaskImplementation(applied) ==
    IF currentTaskState = NoTask
    THEN /\ UNCHANGED << disk, buf, currentTaskState, taskProgress, statusBar >>
         /\ last' = Ran("complete", "", "idle")
    ELSE LET feature   == currentTaskState.feature
             taskIndex == currentTaskState.taskIndex
             r == updateTaskProgress(feature, NoTask, taskProgress, statusBar, disk)
         IN  /\ markTaskCompleted(feature, taskIndex, applied)
             /\ Publish(r)
             /\ UNCHANGED disk
             /\ last' = Ran("complete", feature,
                            IF markEdits(feature, taskIndex) /\ applied
                            THEN "written" ELSE "unwritten")

\* updateTaskProgress run as a trigger of its own over the files dsk.
reconcile(feature, dsk) ==
    LET r == updateTaskProgress(feature, currentTaskState, taskProgress, statusBar, dsk)
    IN  /\ Publish(r)
        /\ last' = Ran("reconcile", feature,
                       IF ~ dsk[feature].exists THEN "missing"
                       ELSE IF r.cleared THEN "cleared" ELSE "kept")

(* --------------------------- actions ---------------------------------- *)

InitOver(F, texts) ==
    /\ disk \in [ Features -> { NoFile } \cup { File(t) : t \in texts } ]
    /\ \A g \in Features \ F : disk[g] = NoFile
    /\ buf = [ f \in Features |-> Closed ]
    /\ currentTaskState = NoTask
    /\ taskProgress = [ totalTasks |-> 0, completedTasks |-> 0, currentTask |-> Null ]
    /\ statusBar = [ ready |-> TRUE, percent |-> 0, isImplementing |-> FALSE ]
    /\ last = Ran("activate", "", "")
    /\ running = { }
    /\ configCache = { }
    /\ isInitialized = FALSE

\* codep.startTask, from a CodeLens or invoked with arguments of the caller's.
StartTask(F) ==
    /\ \E f \in F, i \in Indices : startTaskImplementation(f, i)
    /\ UNCHANGED << running, configCache, isInitialized >>

\* codep.completeTask; applyEdit resolves true or false, or throws.
CompleteTask ==
    /\ \E applied \in BOOLEAN : completeTaskImplementation(applied)
    /\ UNCHANGED << running, configCache, isInitialized >>

\* SaveDocument with a listener that computes progress from the file as it
\* was before the save.
SaveDocumentStale ==
    \E f \in Features :
        /\ buf[f].open
        /\ disk' = [ disk EXCEPT ![f] = File(buf[f].lines) ]
        /\ UNCHANGED << buf, running, configCache, isInitialized >>
        /\ reconcile(f, disk)

\* onDidSaveTextDocument: the editor writes the buffer to the file, then the
\* listener reconciles the feature.
SaveDocument ==
    \E f \in Features :
        /\ buf[f].open
        /\ disk' = [ disk EXCEPT ![f] = File(buf[f].lines) ]
        /\ UNCHANGED << buf, running, configCache, isInitialized >>
        /\ reconcile(f, disk')

\* continueWorkflow: updateTaskProgress(selected.label)
ContinueWorkflow(F) ==
    \E f \in F :
        /\ reconcile(f, disk)
        /\ UNCHANGED << disk, buf, running, configCache, isInitialized >>

\* The user opens the tasks file in an editor.
OpenDocument ==
    \E f \in Features :
        /\ disk[f].exists
        /\ ~ buf[f].open
        /\ buf' = [ buf EXCEPT ![f] = Open(disk[f].lines) ]
        /\ last' = Ran("env", "", "")
        /\ UNCHANGED << disk, currentTaskState, taskProgress, statusBar, running, configCache, isInitialized >>

\* The user closes the editor, dropping unsaved changes.
CloseDocument ==
    \E f \in Features :
        /\ buf[f].open
        /\ buf' = [ buf EXCEPT ![f] = Closed ]
        /\ last' = Ran("env", "", "")
        /\ UNCHANGED << disk, currentTaskState, taskProgress, statusBar, running, configCache, isInitialized >>

\* The editor of feature f holds changes that are not saved.
Dirty(f) == buf[f].open /\ (~ disk[f].exists \/ buf[f].lines # disk[f].lines)

\* One write of another process turns file old into file new: it creates or
\* deletes the file, rewrites one line, appends a line or drops the last one.
OneEdit(old, new) ==
    \/ old.exists # new.exists
    \/ /\ old.exists
       /\ new.exists
       /\ LET a == old.lines
              b == new.lines
          IN  \/ /\ Len(a) = Len(b)
                 /\ Cardinality({ k \in 1 .. Len(a) : a[k] # b[k] }) = 1
              \/ /\ Len(b) = Len(a) + 1
                 /\ SubSeq(b, 1, Len(a)) = a
              \/ /\ Len(a) = Len(b) + 1
                 /\ SubSeq(a, 1, Len(b)) = b

\* Another process (a person, a collaborating agent) writes the file; an
\* editor whose buffer has no unsaved change reloads a rewritten file.  Files
\* with unsaved changes in an editor are left alone.
ExternalEdit(F, texts) ==
    \E f \in F, new \in { NoFile } \cup { File(t) : t \in texts } :
        /\ OneEdit(disk[f], new)
        /\ ~ Dirty(f)
        /\ disk' = [ disk EXCEPT ![f] = new ]
        /\ buf' = IF buf[f].open /\ new.exists /\ disk[f].exists
                     /\ buf[f].lines = disk[f].lines
                  THEN [ buf EXCEPT ![f] = Open(new.lines) ]
                  ELSE buf
        /\ last' = Ran("env", "", "")
        /\ UNCHANGED << currentTaskState, taskProgress, statusBar, running, configCache, isInitialized >>

\* The documents of the editor model: every line of the palette anywhere.
EditorTexts == SeqsUpTo(Palette, MaxLines)

\* The one feature whose document the editor model tracks.
Edited == { "f" }

\* The tracker over the files of two features that other processes edit; no
\* tasks document is open in an editor.
Init == InitOver(Features, PlainTexts)

Next ==
    \/ StartTask(Features)
    \/ CompleteTask
    \/ ContinueWorkflow(Features)
    \/ ExternalEdit(Features, PlainTexts)

Spec == Init /\ [][Next]_vars

\* The tracker and the editor over the document of one feature.
InitEditor == InitOver(Edited, EditorTexts)

NextEditor ==
    \/ StartTask(Edited)
    \/ CompleteTask
    \/ SaveDocument
    \/ ContinueWorkflow(Edited)
    \/ OpenDocument
    \/ CloseDocument
    \/ ExternalEdit(Edited, EditorTexts)

SpecEditor == InitEditor /\ [][NextEditor]_vars

(* ----------------------- workspace store faults ----------------------- *)

\* Failures of the workspace store during one handler: no workspace folder
\* (getWorkspaceRoot throws), readDirectory rejecting, readFile rejecting,
\* applyEdit not applying the edit.
StoreFaults == { "noFolder", "listFails", "unreadable", "editFails" }

\* How a handler that ran under a store fault ended.
RanUnder(fault, op, f, outcome) ==
    [ op |-> op, feature |-> f, outcome |-> outcome, fault |-> fault ]

\* The store call that fails is one the handler makes: readFile is called
\* for a file that findSpecFiles lists, applyEdit for an edit that replaces
\* a line.
FaultStrikes(fault, feature, taskIndex) ==
    /\ fault = "unreadable" => disk[feature].exists
    /\ fault = "editFails" => markEdits(feature, taskIndex)

\* The faults under which findSpecFiles throws to its caller.
Throwing == { "noFolder", "listFails" }

\* The files as a handler reads them under a fault: parseTasksFromFile
\* catches a rejected readFile, logs it and returns no tasks, which is the
\* parse of the empty document.
Seen(fault, dsk, f) ==
    IF fault = "unreadable" /\ dsk[f].exists
    THEN [ dsk EXCEPT ![f] = File(<< Blank >>) ]
    ELSE dsk

\* startTaskImplementation under a store fault.  findSpecFiles is awaited
\* outside any try block, so its exception leaves the handler.
startUnder(fault, feature, taskIndex) ==
    IF fault \in Throwing
    THEN /\ UNCHANGED << disk, buf, currentTaskState, taskProgress, statusBar >>
         /\ last' = RanUnder(fault, "start", feature, "threw")
    ELSE LET seen == Seen(fault, disk, feature)
         IN  IF startRefused(feature, taskIndex, seen)
             THEN /\ UNCHANGED << disk, buf, currentTaskState, taskProgress, statusBar >>
                  /\ last' = RanUnder(fault, "start", feature, "refused")
             ELSE LET r == updateTaskProgress(feature, TaskState(feature, taskIndex),
                                              taskProgress, statusBar, seen)
                  IN  /\ Publish(r)
                      /\ UNCHANGED << disk, buf >>
                      /\ last' = RanUnder(fault, "start", feature, "started")

\* completeTaskImplementation under a store fault.  markTaskCompleted awaits
\* findSpecFiles before its try block; a failing applyEdit is caught inside.
completeUnder(fault) ==
    IF currentTaskState = NoTask
    THEN /\ UNCHANGED << disk, buf, currentTaskState, taskProgress, statusBar >>
         /\ last' = RanUnder(fault, "complete", "", "idle")
    ELSE IF fault \in Throwing
    THEN /\ UNCHANGED << disk, buf, currentTaskState, taskProgress, statusBar >>
         /\ last' = RanUnder(fault, "complete", currentTaskState.feature, "threw")
    ELSE LET feature == currentTaskState.feature
             r == updateTaskProgress(feature, NoTask, taskProgress, statusBar,
                                     Seen(fault, disk, feature))
         IN  /\ markTaskCompleted(feature, currentTaskState.taskIndex, fault # "editFails")
             /\ Publish(r)
             /\ UNCHANGED disk
             /\ last' = RanUnder(fault, "complete", feature,
                            IF markEdits(feature, currentTaskState.taskIndex)
                               /\ fault # "editFails"
                            THEN "written" ELSE "unwritten")

\* updateTaskProgress under a store fault, run by the save listener (which
\* awaits it with no try block) or by continueWorkflow (which catches and
\* logs).
reconcileUnder(fault, feature, caught) ==
    IF fault \in Throwing
    THEN /\ UNCHANGED << disk, buf, currentTaskState, taskProgress, statusBar >>
         /\ last' = RanUnder(fault, "reconcile", feature, IF caught THEN "caught" ELSE "threw")
    ELSE LET seen == Seen(fault, disk, feature)
             r == updateTaskProgress(feature, currentTaskState, taskProgress,
                                     statusBar, seen)
         IN  /\ Publish(r)
             /\ UNCHANGED << disk, buf >>
             /\ last' = RanUnder(fault, "reconcile", feature,
                                 IF ~ seen[feature].exists THEN "missing"
                                 ELSE IF r.cleared THEN "cleared" ELSE "kept")

StartTaskFaulty ==
    \E fault \in StoreFaults \ { "editFails" }, f \in Edited, i \in Indices :
        /\ FaultStrikes(fault, f, i)
        /\ startUnder(fault, f, i)
        /\ UNCHANGED << running, configCache, isInitialized >>

CompleteTaskFaulty ==
    \E fault \in StoreFaults :
        /\ currentTaskState # NoTask
        /\ FaultStrikes(fault, currentTaskState.feature, currentTaskState.taskIndex)
        /\ completeUnder(fault)
        /\ UNCHANGED << running, configCache, isInitialized >>

ReconcileFaulty ==
    \E fault \in StoreFaults \ { "editFails" }, f \in Edited, caught \in BOOLEAN :
        /\ FaultStrikes(fault, f, 0)
        /\ reconcileUnder(fault, f, caught)
        /\ UNCHANGED << running, configCache, isInitialized >>

\* The tracker and the editor over the document of one feature, with a
\* workspace store that may fail during any handler.
NextStore ==
    \/ StartTask(Edited)
    \/ CompleteTask
    \/ SaveDocument
    \/ ContinueWorkflow(Edited)
    \/ OpenDocument
    \/ CloseDocument
    \/ ExternalEdit(Edited, EditorTexts)
    \/ StartTaskFaulty
    \/ CompleteTaskFaulty
    \/ ReconcileFaulty

SpecStore == InitEditor /\ [][NextStore]_vars

(* ------------------------------ parser -------------------------------- *)

\* The documents the parser is run on: every line of the palette and every
\* further line, anywhere.
WireTexts == SeqsUpTo(Palette \cup WireLines, MaxLines)

\* parseTasksFromFile rethrowing what readFile throws.
parseOutcomeRethrows(lines, readable) ==
    IF readable
    THEN [ threw |-> FALSE, tasks |-> parseLines(lines, 1, << >>) ]
    ELSE [ threw |-> TRUE, tasks |-> << >> ]

\* parseTasksFromFile as its caller sees it: the tasks of the file's lines,
\* and no tasks (with a line in the log) when readFile rejects.
parseOutcome(lines, readable) ==
    [ threw |-> FALSE,
      tasks |-> IF readable THEN parseLines(lines, 1, << >>) ELSE << >> ]

\* One call of parseTasksFromFile on the file of a feature.
ParseFile ==
    \E f \in Edited, readable \in BOOLEAN :
        /\ disk[f].exists
        /\ last' = [ op       |-> "parse",
                     feature  |-> f,
                     outcome  |-> IF readable THEN "returned" ELSE "caught",
                     result   |-> parseOutcome(disk[f].lines, readable) ]
        /\ UNCHANGED << disk, buf, currentTaskState, taskProgress, statusBar, running, configCache, isInitialized >>

\* The parser over every document of one feature.
InitParser == InitOver(Edited, WireTexts)

NextParser == ParseFile

SpecParser == InitParser /\ [][NextParser]_vars

(* ---------------------------- status bar ----------------------------- *)

\* The snapshots updateTaskProgress stores for tasks files of up to MaxTasks
\* checklist items, each with the active task it was computed under.  A
\* snapshot whose items are all completed has no active task behind it,
\* updateTaskProgress having cleared it.
Snapshots ==
    { [ tp  |-> [ totalTasks |-> t, completedTasks |-> c, currentTask |-> currentTaskOf(cts) ],
        cts |-> cts ] :
      t \in 0 .. MaxTasks, c \in 0 .. MaxTasks,
      cts \in { NoTask } \cup { TaskState(f, 1) : f \in Edited } }

\* updateTaskProgress has stored a snapshot and is about to call
\* updateStatusBar.  The tasks file is summed up by the counts of its parse.
InitPresenter ==
    /\ disk = [ f \in Features |-> NoFile ]
    /\ buf = [ f \in Features |-> Closed ]
    /\ \E s \in Snapshots :
        /\ s.tp.completedTasks <= s.tp.totalTasks
        /\ s.cts # NoTask => s.tp.completedTasks < s.tp.totalTasks
        /\ taskProgress = s.tp
        /\ currentTaskState = s.cts
    /\ statusBar = [ ready |-> TRUE, percent |-> 0, isImplementing |-> FALSE ]
    /\ last = Ran("activate", "", "")
    /\ running = { }
    /\ configCache = { }
    /\ isInitialized = FALSE

\* updateStatusBar()
Present ==
    /\ last.op = "activate"
    /\ statusBar' = updateStatusBar(taskProgress, currentTaskState)
    /\ last' = Ran("present", "", "shown")
    /\ UNCHANGED << disk, buf, currentTaskState, taskProgress, running, configCache, isInitialized >>

NextPresenter == Present

SpecPresenter == InitPresenter /\ [][NextPresenter]_vars

(* ------------------------------ marker -------------------------------- *)

\* The lines of the documents that tasks are marked in: the palette and the
\* indented checklist lines.
MarkLines == Palette \cup { IndentedTodo, Indented }

MarkTexts == SeqsUpTo(MarkLines, MaxLines)

\* The tasks document of one feature is open in an editor, with no unsaved
\* change.
InitMarker ==
    /\ \E t \in MarkTexts :
          /\ disk = [ f \in Features |-> IF f \in Edited THEN File(t) ELSE NoFile ]
          /\ buf = [ f \in Features |-> IF f \in Edited THEN Open(t) ELSE Closed ]
    /\ currentTaskState = NoTask
    /\ taskProgress = [ totalTasks |-> 0, completedTasks |-> 0, currentTask |-> Null ]
    /\ statusBar = [ ready |-> TRUE, percent |-> 0, isImplementing |-> FALSE ]
    /\ last = Ran("activate", "", "")
    /\ running = { }
    /\ configCache = { }
    /\ isInitialized = FALSE

\* One call of markTaskCompleted(feature, taskIndex) on the open document;
\* the step records the text it started from.
MarkTask ==
    \E f \in Edited, i \in Indices, applied \in BOOLEAN :
        /\ markTaskCompleted(f, i, applied)
        /\ last' = [ op      |-> "mark",
                     feature |-> f,
                     outcome |-> IF markEdits(f, i) /\ applied
                                 THEN "written" ELSE "unwritten",
                     index   |-> i,
                     before  |-> buf[f].lines ]
        /\ UNCHANGED << disk, currentTaskState, taskProgress, statusBar, running, configCache, isInitialized >>

NextMarker == MarkTask

SpecMarker == InitMarker /\ [][NextMarker]_vars

(* ------------------------------ readers ------------------------------- *)

\* line.match(/^\s*-\s*\[(\s|x)\]\s*(.+)$/) of provideCodeLenses: the
\* position of "]" when the line matches, 0 when it does not.
lensMatch(line) ==
    LET s == Chars[line]
        p == MatchHead(s, { "x", " ", "\t" })
    IN  IF /\ p > 0
           /\ p < Len(s)
           /\ \A k \in (p + 1) .. Len(s) : IsDot(s[k])
        THEN p
        ELSE 0

\* The CodeLens pushed for a matching line: its line, its title and, for
\* 'Start Task', the arguments [feature, taskIndex] of codep.startTask.
CodeLensOf(line, lineNo, taskIndex, feature, cts) ==
    LET isCompleted   == Chars[line][lensMatch(line) - 1] = "x"
        isCurrentTask == cts # NoTask /\ cts.taskIndex = taskIndex
    IN  [ line      |-> lineNo,
          title     |-> IF isCompleted THEN "Task Complete"
                        ELSE IF isCurrentTask THEN "Implementing..."
                        ELSE "Start Task",
          feature   |-> IF isCompleted \/ isCurrentTask THEN "" ELSE feature,
          taskIndex |-> IF isCompleted \/ isCurrentTask THEN Null ELSE taskIndex ]

\* The for loop of provideCodeLenses from line k (1-based here) on, with
\* the lenses collected so far; taskIndex is their number.
RECURSIVE lensesFrom(_, _, _, _, _)
lensesFrom(lines, k, feature, cts, codeLenses) ==
    IF k > Len(lines) THEN codeLenses
    ELSE IF lensMatch(lines[k]) > 0
         THEN lensesFrom(lines, k + 1, feature, cts,
                         Append(codeLenses,
                                CodeLensOf(lines[k], k - 1, Len(codeLenses), feature, cts)))
         ELSE lensesFrom(lines, k + 1, feature, cts, codeLenses)

\* TaskCodeLensProvider.provideCodeLenses on the tasks document of a feature.
provideCodeLenses(lines, feature, cts) == lensesFrom(lines, 1, feature, cts, << >>)

\* The editor asks for the lenses of an open tasks document.
ProvideCodeLenses ==
    \E f \in Features :
        /\ buf[f].open
        /\ last' = [ op      |-> "codeLens",
                     feature |-> f,
                     outcome |-> "returned",
                     result  |-> provideCodeLenses(buf[f].lines, f, currentTaskState) ]
        /\ UNCHANGED << disk, buf, currentTaskState, taskProgress, statusBar, running, configCache, isInitialized >>

\* codep.showTaskProgress: opens the tasks file of the active task's feature
\* in an editor; with no active task it shows the navigation pick list.
ShowTaskProgress ==
    /\ IF currentTaskState = NoTask
       THEN /\ buf' = buf
            /\ last' = Ran("showProgress", "", "navigation")
       ELSE LET feature == currentTaskState.feature
            IN  IF disk[feature].exists
                THEN /\ buf' = IF buf[feature].open THEN buf
                               ELSE [ buf EXCEPT ![feature] = Open(disk[feature].lines) ]
                     /\ last' = Ran("showProgress", feature, "opened")
                ELSE /\ buf' = buf
                     /\ last' = Ran("showProgress", feature, "missing")
    /\ UNCHANGED << disk, currentTaskState, taskProgress, statusBar, running, configCache, isInitialized >>

\* The tracker, the editor and the readers of the tracker's state over the
\* files of two features.
InitReaders == InitOver(Features, PlainTexts)

NextReaders ==
    \/ StartTask(Features)
    \/ CompleteTask
    \/ SaveDocument
    \/ ContinueWorkflow(Features)
    \/ OpenDocument
    \/ CloseDocument
    \/ ExternalEdit(Features, PlainTexts)
    \/ ProvideCodeLenses
    \/ ShowTaskProgress

SpecReaders == InitReaders /\ [][NextReaders]_vars

(* ------------------------- handlers in steps -------------------------- *)

\* A handler suspended at an await: the command or listener it runs for,
\* its feature and taskIndex locals, and the await it is suspended at:
\*   "check"   startTaskImplementation, at findSpecFiles / parseTasksFromFile
\*   "mark"    completeTaskImplementation, at markTaskCompleted
\*   "update"  updateTaskProgress, at findSpecFiles / parseTasksFromFile
Handler(op, feature, taskIndex, pc) ==
    [ op |-> op, feature |-> feature, taskIndex |-> taskIndex, pc |-> pc ]

\* The handler h resumes and runs on to its next await, at pc.
Resume(h, pc) == running' = (running \ { h }) \cup { [ h EXCEPT !.pc = pc ] }

\* A handler is invoked and runs to its first await.  Nothing in activate
\* queues an invocation behind the handlers that are suspended.
Suspend(h) ==
    /\ Cardinality(running) < MaxRunning
    /\ h \notin running
    /\ running' = running \cup { h }

\* codep.startTask is invoked: startTaskImplementation up to its first await.
BeginStart ==
    \E f \in Edited, i \in Indices :
        /\ Suspend(Handler("start", f, i, "check"))
        /\ last' = Ran("start", f, "began")
        /\ UNCHANGED << disk, buf, currentTaskState, taskProgress, statusBar, configCache, isInitialized >>

\* startTaskImplementation from the safety check to the first await of
\* updateTaskProgress: it returns, or installs the active task.
StartChecked ==
    \E h \in running :
        /\ h.op = "start"
        /\ h.pc = "check"
        /\ IF startRefused(h.feature, h.taskIndex, disk)
           THEN /\ running' = running \ { h }
                /\ currentTaskState' = currentTaskState
                /\ last' = Ran("start", h.feature, "refused")
           ELSE /\ Resume(h, "update")
                /\ currentTaskState' = TaskState(h.feature, h.taskIndex)
                /\ last' = Ran("start", h.feature, "installed")
        /\ UNCHANGED << disk, buf, taskProgress, statusBar, configCache, isInitialized >>

\* codep.completeTask is invoked: completeTaskImplementation reads the
\* active task into feature and taskIndex and awaits markTaskCompleted.
BeginComplete ==
    /\ IF currentTaskState = NoTask
       THEN /\ running' = running
            /\ last' = Ran("complete", "", "idle")
       ELSE /\ Suspend(Handler("complete", currentTaskState.feature,
                               currentTaskState.taskIndex, "mark"))
            /\ last' = Ran("complete", currentTaskState.feature, "began")
    /\ UNCHANGED << disk, buf, currentTaskState, taskProgress, statusBar, configCache, isInitialized >>

\* completeTaskImplementation from the return of markTaskCompleted to the
\* first await of updateTaskProgress: currentTaskState = null.
CompleteMarked ==
    \E h \in running, applied \in BOOLEAN :
        /\ h.op = "complete"
        /\ h.pc = "mark"
        /\ markTaskCompleted(h.feature, h.taskIndex, applied)
        /\ currentTaskState' = NoTask
        /\ Resume(h, "update")
        /\ last' = [ op        |-> "complete",
                     feature   |-> h.feature,
                     outcome   |-> "cleared",
                     taskIndex |-> h.taskIndex ]
        /\ UNCHANGED << disk, taskProgress, statusBar, configCache, isInitialized >>

\* A tasks document is saved, or continueWorkflow picks a feature:
\* updateTaskProgress up to its first await.
BeginReconcile ==
    \E f \in Edited :
        /\ Suspend(Handler("reconcile", f, Null, "update"))
        /\ last' = Ran("reconcile", f, "began")
        /\ UNCHANGED << disk, buf, currentTaskState, taskProgress, statusBar, configCache, isInitialized >>

\* updateTaskProgress from the parse to its end, which ends the handler.
FinishUpdate ==
    \E h \in running :
        /\ h.pc = "update"
        /\ Publish(updateTaskProgress(h.feature, currentTaskState, taskProgress,
                                      statusBar, disk))
        /\ running' = running \ { h }
        /\ last' = Ran(h.op, h.feature, "finished")
        /\ UNCHANGED << disk, buf, configCache, isInitialized >>

\* The tracker's handlers, each running from await to await, over the
\* unchanging file of one feature.
InitAsync == InitOver(Edited, PlainTexts)

NextAsync ==
    \/ BeginStart
    \/ StartChecked
    \/ BeginComplete
    \/ CompleteMarked
    \/ BeginReconcile
    \/ FinishUpdate

SpecAsync == InitAsync /\ [][NextAsync]_vars

(* --------------------- overlapping reconciliations -------------------- *)

\* A reconciliation suspended in updateTaskProgress: at "read" the store
\* has not answered readFile yet, at "parse" it has answered with the file
\* seen and the rest of updateTaskProgress is still to run.
Reconciler(feature, pc, seen) ==
    [ op |-> "reconcile", feature |-> feature, taskIndex |-> Null,
      pc |-> pc, seen |-> seen ]

\* The user edits the tasks document and saves it; the save listener calls
\* updateTaskProgress, which runs to its first await.
SaveTriggers ==
    \E f \in Edited, t \in PlainTexts :
        /\ disk[f] # File(t)
        /\ disk' = [ disk EXCEPT ![f] = File(t) ]
        /\ buf' = [ buf EXCEPT ![f] = Open(t) ]
        /\ Suspend(Reconciler(f, "read", NoFile))
        /\ last' = Ran("reconcile", f, "began")
        /\ UNCHANGED << currentTaskState, taskProgress, statusBar, configCache, isInitialized >>

\* The store answers the readFile of a reconciliation with the file as it
\* is now.  The store answers in any order.
ReadFile ==
    \E h \in running :
        /\ h.pc = "read"
        /\ running' = (running \ { h }) \cup { Reconciler(h.feature, "parse", disk[h.feature]) }
        /\ last' = Ran("reconcile", h.feature, "read")
        /\ UNCHANGED << disk, buf, currentTaskState, taskProgress, statusBar, configCache, isInitialized >>

\* updateTaskProgress from the split of the content it was answered with
\* to its end.
FinishParsed ==
    \E h \in running :
        /\ h.pc = "parse"
        /\ Publish(updateTaskProgress(h.feature, currentTaskState, taskProgress,
                                      statusBar, [ disk EXCEPT ![h.feature] = h.seen ]))
        /\ running' = running \ { h }
        /\ last' = Ran("reconcile", h.feature, "finished")
        /\ UNCHANGED << disk, buf, configCache, isInitialized >>

\* Saves of one tasks document and the reconciliations they trigger.
InitOverlap == InitOver(Edited, PlainTexts)

NextOverlap ==
    \/ SaveTriggers
    \/ ReadFile
    \/ FinishParsed

SpecOverlap == InitOverlap /\ [][NextOverlap]_vars

(* ------------------------------- lenses ------------------------------- *)

\* A tasks document of any lines is open in an editor, with no unsaved
\* change and no active task.
InitLens ==
    /\ \E t \in WireTexts :
          /\ disk = [ f \in Features |-> IF f \in Edited THEN File(t) ELSE NoFile ]
          /\ buf = [ f \in Features |-> IF f \in Edited THEN Open(t) ELSE Closed ]
    /\ currentTaskState = NoTask
    /\ taskProgress = [ totalTasks |-> 0, completedTasks |-> 0, currentTask |-> Null ]
    /\ statusBar = [ ready |-> TRUE, percent |-> 0, isImplementing |-> FALSE ]
    /\ last = Ran("activate", "", "")
    /\ running = { }
    /\ configCache = { }
    /\ isInitialized = FALSE

NextLens == ProvideCodeLenses

SpecLens == InitLens /\ [][NextLens]_vars

(* ---------------------- configuration injection ----------------------- *)

\* getBundledFiles: the files of the extension bundle, in the order
\* injectConfig processes them, each with the workspace path it is copied
\* to and its content.
bundledFiles ==
    << [ relativePath |-> ".github/copilot-instructions.md", content |-> TodoA ],
       [ relativePath |-> ".github/prompts/spec.prompt.md",  content |-> TrailingS ] >>

TargetPaths == { bundledFiles[k].relativePath : k \in 1 .. Len(bundledFiles) }

\* Contents a workspace file at a target path may have.
ConfigContents == { TodoA, IndentedTodo, TrailingS, TodoNoTxt, Prose }

\* compareFileContents
compareFileContents(bundledContent, workspaceContent) ==
    Trim(Chars[bundledContent]) = Trim(Chars[workspaceContent])

\* The loop body of injectConfig deciding to write over a target whose
\* content differs.
processFileOverwriting(file, dsk) ==
    IF dsk[file.relativePath].exists
    THEN IF compareFileContents(file.content, dsk[file.relativePath].lines[1])
         THEN "skip" ELSE "create"
    ELSE "create"

\* The loop body of injectConfig up to its decision for one bundled file
\* over the workspace dsk: the file is skipped, collected as a conflict, or
\* created.
processFile(file, dsk) ==
    IF dsk[file.relativePath].exists
    THEN IF compareFileContents(file.content, dsk[file.relativePath].lines[1])
         THEN "skip" ELSE "conflict"
    ELSE "create"

\* An invocation of injectConfig that is about to process bundled file
\* next, with its two counters and the workspace it started over.
Injector(id, pc, next, copiedCount, conflictCount, before) ==
    [ op |-> "inject", id |-> id, pc |-> pc, next |-> next,
      copiedCount |-> copiedCount, conflictCount |-> conflictCount,
      before |-> before ]

\* codep.injectConfig is invoked: injectConfig up to the loop.
BeginInject ==
    \E id \in 1 .. MaxRunning :
        /\ \A h \in running : h.id # id
        /\ Suspend(Injector(id, "check", 1, 0, 0, disk))
        /\ last' = Ran("inject", "", "began")
        /\ UNCHANGED << disk, buf, currentTaskState, taskProgress, statusBar, configCache, isInitialized >>

\* One pass of the loop up to the await of writeFile: fileExists, and for
\* a target that exists readFile and compareFileContents.
CheckTarget ==
    \E h \in running :
        /\ h.pc = "check"
        /\ h.next <= Len(bundledFiles)
        /\ LET decided == processFile(bundledFiles[h.next], disk)
           IN  running' = (running \ { h }) \cup
                   { IF decided = "create"
                     THEN [ h EXCEPT !.pc = "write" ]
                     ELSE [ h EXCEPT !.next = h.next + 1,
                                     !.conflictCount =
                                         IF decided = "conflict" THEN @ + 1 ELSE @ ] }
        /\ last' = Ran("inject", "", "checked")
        /\ UNCHANGED << disk, buf, currentTaskState, taskProgress, statusBar, configCache, isInitialized >>

\* writeFile of the bundled content to the target.
WriteTarget ==
    \E h \in running :
        /\ h.pc = "write"
        /\ disk' = [ disk EXCEPT ![bundledFiles[h.next].relativePath] =
                         File(<< bundledFiles[h.next].content >>) ]
        /\ running' = (running \ { h }) \cup
               { [ h EXCEPT !.pc = "check", !.next = h.next + 1,
                            !.copiedCount = @ + 1 ] }
        /\ last' = Ran("inject", "", "created")
        /\ UNCHANGED << buf, currentTaskState, taskProgress, statusBar, configCache, isInitialized >>

\* The loop is over: the message with the two counters.
FinishInject ==
    \E h \in running :
        /\ h.pc = "check"
        /\ h.next > Len(bundledFiles)
        /\ running' = running \ { h }
        /\ last' = [ op |-> "inject", feature |-> "", outcome |-> "completed",
                     copiedCount |-> h.copiedCount,
                     conflictCount |-> h.conflictCount,
                     before |-> h.before ]
        /\ UNCHANGED << disk, buf, currentTaskState, taskProgress, statusBar, configCache, isInitialized >>

\* injectConfig over every workspace, where invocations may overlap.
InitInject ==
    /\ disk \in [ TargetPaths -> { NoFile } \cup { File(<< c >>) : c \in ConfigContents } ]
    /\ buf = [ p \in TargetPaths |-> Closed ]
    /\ currentTaskState = NoTask
    /\ taskProgress = [ totalTasks |-> 0, completedTasks |-> 0, currentTask |-> Null ]
    /\ statusBar = [ ready |-> TRUE, percent |-> 0, isImplementing |-> FALSE ]
    /\ last = Ran("activate", "", "")
    /\ running = { }
    /\ configCache = { }
    /\ isInitialized = FALSE

NextInject ==
    \/ BeginInject
    \/ CheckTarget
    \/ WriteTarget
    \/ FinishInject

SpecInject == InitInject /\ [][NextInject]_vars

(* ------------------------ workflow completeness ----------------------- *)

requiredPhases == { "01-requirements", "02-design", "03-tasks" }

\* The content of a file of the given lines: the lines joined by "\n".
RECURSIVE Joined(_)
Joined(lines) ==
    IF Len(lines) = 0 THEN << >>
    ELSE IF Len(lines) = 1 THEN Chars[lines[1]]
    ELSE Chars[lines[1]] \o << "\n" >> \o Joined(Tail(lines))

\* String.prototype.includes
Includes(s, sub) ==
    \E k \in 1 .. Len(s) : k + Len(sub) - 1 <= Len(s) /\ SubSeq(s, k, k + Len(sub) - 1) = sub

\* isSpecComplete for a feature whose directory lists the phase files
\* files, its tasks file being the one of dsk; readable tells whether
\* readFile returns.
isSpecComplete(files, feature, dsk, readable) ==
    IF ~ ( requiredPhases \subseteq files ) THEN FALSE
    ELSE IF ~ readable THEN FALSE
    ELSE ~ Includes(Joined(dsk[feature].lines), << "-", " ", "[", " ", "]" >>)

\* findSpecFiles: the phase files of the feature's directory.
findSpecFiles(feature, others) ==
    others \cup ( IF disk[feature].exists THEN { "03-tasks" } ELSE { } )

IsSpecComplete ==
    \E f \in Edited, others \in SUBSET { "01-requirements", "02-design" }, readable \in BOOLEAN :
        /\ last' = [ op       |-> "isSpecComplete",
                     feature  |-> f,
                     outcome  |-> IF readable THEN "returned" ELSE "caught",
                     files    |-> findSpecFiles(f, others),
                     result   |-> isSpecComplete(findSpecFiles(f, others), f, disk, readable) ]
        /\ UNCHANGED << disk, buf, currentTaskState, taskProgress, statusBar, running, configCache, isInitialized >>

\* isSpecComplete over every tasks document of one feature.
InitComplete == InitOver(Edited, WireTexts)

NextComplete == IsSpecComplete

SpecComplete == InitComplete /\ [][NextComplete]_vars

(* ----------------------- configuration manager ------------------------ *)

\* workspaceFolders[0].uri.fsPath of a workspace that has a folder.
workspaceRoot == "w"

\* A call of the ConfigurationManager that is suspended in its await of
\* discoverConfiguration.
ManagerCall(id, op) == [ op |-> op, id |-> id, pc |-> "discover" ]

\* A call is made and runs to its await of discoverConfiguration.
Called(op) ==
    \E id \in 1 .. MaxRunning :
        /\ \A h \in running : h.id # id
        /\ Suspend(ManagerCall(id, op))

\* initialize() is called, by activate or by a getCurrentConfig that
\* neither finds a cached config nor finds the manager initialized.
BeginInitialize ==
    \E op \in { "initialize", "getCurrentConfig" } :
        /\ ~ isInitialized
        /\ op = "getCurrentConfig" => workspaceRoot \notin configCache
        /\ Called(op)
        /\ last' = Ran(op, "", "began")
        /\ UNCHANGED << disk, buf, currentTaskState, taskProgress, statusBar,
                        configCache, isInitialized >>

\* A watcher's onDidChange, onDidCreate or onDidDelete handler, or
\* refreshConfiguration: invalidateCache, then discoverConfiguration up to
\* its first await.  The watchers exist once setupFileWatching has run.
InvalidateAndRediscover ==
    \E op \in { "watcher", "refreshConfiguration" } :
        /\ isInitialized
        /\ Called(op)
        /\ configCache' = configCache \ { workspaceRoot }
        /\ last' = Ran(op, "", "began")
        /\ UNCHANGED << disk, buf, currentTaskState, taskProgress, statusBar,
                        isInitialized >>

\* discoverConfiguration ends.  When it returns it has cached the config;
\* initialize goes on to setupFileWatching and isInitialized = true, and a
\* getCurrentConfig that awaited initialize returns what the cache holds.
\* When it throws, the call that awaited it rejects.
DiscoverEnds ==
    \E h \in running, threw \in BOOLEAN :
        /\ h.pc = "discover"
        /\ running' = running \ { h }
        /\ configCache' = IF threw THEN configCache ELSE configCache \cup { workspaceRoot }
        /\ isInitialized' = ( isInitialized \/
                              ( ~ threw /\ h.op \in { "initialize", "getCurrentConfig" } ) )
        /\ last' = [ op      |-> h.op,
                     feature |-> "",
                     outcome |-> IF threw THEN "threw" ELSE "returned",
                     result  |-> IF threw THEN "" ELSE "config" ]
        /\ UNCHANGED << disk, buf, currentTaskState, taskProgress, statusBar >>

\* getCurrentConfig when the config is cached or the manager is
\* initialized: the cached config, or null.
getCurrentConfig(cache) ==
    IF workspaceRoot \in cache THEN "config" ELSE "null"

GetCurrentConfig ==
    /\ workspaceRoot \in configCache \/ isInitialized
    /\ last' = [ op      |-> "getCurrentConfig",
                 feature |-> "",
                 outcome |-> "returned",
                 result  |-> getCurrentConfig(configCache) ]
    /\ UNCHANGED << disk, buf, currentTaskState, taskProgress, statusBar, running,
                    configCache, isInitialized >>

\* The manager of a workspace that has one folder, from its construction.
InitManager == InitOver({ }, PlainTexts)

NextManager ==
    \/ BeginInitialize
    \/ InvalidateAndRediscover
    \/ DiscoverEnds
    \/ GetCurrentConfig

SpecManager == InitManager /\ [][NextManager]_vars

(* ----------------------------- truncation ----------------------------- *)

\* The strings over S of at most n characters.
StringsUpTo(S, n) == { << >> } \cup ( IF n = 0 THEN { } ELSE SeqsUpTo(S, n) )

\* String.prototype.lastIndexOf for a one-character search string: the
\* greatest index, counted from 0 and at most fromIndex, at which c occurs
\* in s, and -1 when there is none.  A negative fromIndex counts as 0.
lastIndexOf(s, c, fromIndex) ==
    LET from  == IF fromIndex < 0 THEN 0 ELSE fromIndex
        found == { i \in 0 .. (Len(s) - 1) : i <= from /\ s[i + 1] = c }
    IN  IF found = { } THEN -1
        ELSE CHOOSE i \in found : \A j \in found : j <= i

\* String.prototype.substring(0, end): a negative end counts as 0, an end
\* past the string as its length.
substring0(s, end) ==
    LET e == IF end < 0 THEN 0 ELSE IF end > Len(s) THEN Len(s) ELSE end
    IN  SubSeq(s, 1, e)

\* truncateContent.  truncateAt > maxLength * 0.8 is decided in integers: the
\* double maxLength * 0.8 lies on the same side of every integer as the
\* real product does.
truncateContent(content, maxLength, suffix) ==
    IF Len(content) <= maxLength THEN content
    ELSE LET truncateAt == lastIndexOf(content, " ", maxLength - Len(suffix))
             cutPoint   == IF 5 * truncateAt > 4 * maxLength
                           THEN truncateAt
                           ELSE maxLength - Len(suffix)
         IN  substring0(content, cutPoint) \o suffix

\* The arguments of a call.
TruncateInputs ==
    [ content   : StringsUpTo({ "a", " ", "." }, MaxContent),
      maxLength : 0 .. MaxContent,
      suffix    : StringsUpTo({ "." }, MaxSuffix) ]

TruncateContent ==
    /\ last.op = "arguments"
    /\ last' = [ op |-> "truncateContent", feature |-> "", outcome |-> "returned",
                 arguments |-> last.arguments,
                 result |-> truncateContent(last.arguments.content,
                                            last.arguments.maxLength,
                                            last.arguments.suffix) ]
    /\ UNCHANGED << disk, buf, currentTaskState, taskProgress, statusBar, running,
                    configCache, isInitialized >>

\* truncateContent over every content, maxLength and suffix of the bounds.
InitTruncate ==
    /\ disk = [ f \in Features |-> NoFile ]
    /\ buf = [ f \in Features |-> Closed ]
    /\ currentTaskState = NoTask
    /\ taskProgress = [ totalTasks |-> 0, completedTasks |-> 0, currentTask |-> Null ]
    /\ statusBar = [ ready |-> TRUE, percent |-> 0, isImplementing |-> FALSE ]
    /\ \E a \in TruncateInputs :
          last = [ op |-> "arguments", feature |-> "", outcome |-> "", arguments |-> a ]
    /\ running = { }
    /\ configCache = { }
    /\ isInitialized = FALSE

NextTruncate == TruncateContent

SpecTruncate == InitTruncate /\ [][NextTruncate]_vars

(* --------------------------- properties ------------------------------- *)

\* The parse of feature f's file among the files dsk.
TasksIn(dsk, f) == parseTasksFromFile(dsk[f].lines)

\* Item i exists in the list and is not completed.
ItemIncomplete(tasks, i) == i >= 0 /\ i < Len(tasks) /\ ~ tasks[i + 1].completed

\* The active task cts is one of an item that its feature's file, among the
\* files dsk, lists as not completed.
ActiveItemPending(cts, dsk) ==
    /\ cts # NoTask
    /\ dsk[cts.feature].exists
    /\ ItemIncomplete(TasksIn(dsk, cts.feature), cts.taskIndex)

\* This step is codep.completeTask run while a task is active.
CompletesActive ==
    /\ currentTaskState # NoTask
    /\ \E applied \in BOOLEAN : completeTaskImplementation(applied)

\* C1: after completeActiveTask() succeeds from Implementing(f, i), the
\* active task is null and the line of f's document that holds checklist
\* entry i reads "- [x] <original text>".
C1_CompleteMarksActiveEntry ==
    [][ ( /\ CompletesActive
          /\ last'.outcome = "written"
          /\ currentTaskState.taskIndex
                 < Len(parseTasksFromFile(buf[currentTaskState.feature].lines)) )
        => LET f    == currentTaskState.feature
               item == parseTasksFromFile(buf[f].lines)[currentTaskState.taskIndex + 1]
           IN  /\ currentTaskState' = NoTask
               /\ Chars[buf'[f].lines[item.line + 1]]
                      = << "-", " ", "[", "x", "]", " " >> \o item.text ]_vars

\* C2: completeActiveTask() clears the active task only if the completion
\* marker was written; when the write does not happen the active task after
\* the call is still Implementing(f, i).  Stated for an active item that the
\* file lists as not completed.
C2_UnwrittenCompletionKeepsActive ==
    [][ ( /\ CompletesActive
          /\ ActiveItemPending(currentTaskState, disk)
          /\ last'.outcome = "unwritten" )
        => currentTaskState' = currentTaskState ]_vars

\* C3: startTask(f, i) on an item that is already completed leaves the
\* active task and the published snapshot as they were.
C3_StartOfCompletedItemIsNoOp ==
    [][ \A f \in Features, i \in Indices :
          ( /\ last'.op = "start"
            /\ disk[f].exists
            /\ ItemCompleted(TasksIn(disk, f), i)
            /\ startTaskImplementation(f, i) )
          => /\ currentTaskState' = currentTaskState
             /\ taskProgress' = taskProgress ]_vars

\* A start request was refused while another task was being implemented.
C3_Witness ==
    /\ last.op = "start"
    /\ last.outcome = "refused"
    /\ currentTaskState # NoTask
    /\ \E i \in Indices : ItemCompleted(TasksIn(disk, last.feature), i)

\* This step is updateTaskProgress(f) run as a trigger of its own (a save of
\* f's document, or continueWorkflow) over the files as they are after it.
Reconciles(f) == reconcile(f, disk')

\* C4: passive reconciliation.  When progress is recomputed for the active
\* feature f in state Implementing(f, i) and the parsed item i of f's file is
\* completed, the active task becomes null, the reconciliation edits no
\* document (the file is as it was, or as the save that triggered the
\* reconciliation wrote it), and completedTasks counts that item.
C4_PassiveReconciliationClears ==
    [][ \A f \in Features :
          ( /\ currentTaskState # NoTask
            /\ currentTaskState.feature = f
            /\ disk'[f].exists
            /\ ItemCompleted(TasksIn(disk', f), currentTaskState.taskIndex)
            /\ Reconciles(f) )
          => /\ currentTaskState' = NoTask
             /\ buf' = buf
             /\ disk' = disk \/ (buf[f].open /\ disk' = [ disk EXCEPT ![f] = File(buf[f].lines) ])
             /\ taskProgress'.completedTasks = completedCount(TasksIn(disk', f))
             /\ taskProgress'.completedTasks >= 1 ]_vars

\* A reconciliation has just cleared the active task over a file that has
\* completed items.
C4_Witness ==
    /\ last.op = "reconcile"
    /\ last.outcome = "cleared"
    /\ currentTaskState = NoTask
    /\ disk[last.feature].exists
    /\ taskProgress.completedTasks >= 1

\* C5: in state Implementing(f, i), a reconciliation of f over a file in
\* which item i is still incomplete leaves the active task as it is, and the
\* status bar shows the task as being implemented.
C5_ReconciliationKeepsIncompleteActive ==
    [][ \A f \in Features :
          ( /\ currentTaskState # NoTask
            /\ currentTaskState.feature = f
            /\ disk'[f].exists
            /\ ItemIncomplete(TasksIn(disk', f), currentTaskState.taskIndex)
            /\ Reconciles(f) )
          => /\ currentTaskState' = currentTaskState
             /\ ~ statusBar'.ready
             /\ statusBar'.isImplementing ]_vars

\* The active feature has just been reconciled with its active item still
\* incomplete.
C5_Witness ==
    /\ last.op = "reconcile"
    /\ last.outcome = "kept"
    /\ currentTaskState # NoTask
    /\ currentTaskState.feature = last.feature
    /\ disk[last.feature].exists
    /\ ItemIncomplete(TasksIn(disk, last.feature), currentTaskState.taskIndex)
    /\ statusBar.isImplementing

\* C6: while the state is Implementing(f, i), recomputing progress for a
\* different feature g never clears the active task.  Stated for an active
\* item that f's file lists as not completed.
C6_OtherFeatureNeverClears ==
    [][ \A g \in Features :
          ( /\ Reconciles(g)
            /\ ActiveItemPending(currentTaskState, disk')
            /\ currentTaskState.feature # g )
          => currentTaskState' = currentTaskState ]_vars

\* This step computed progress for feature f: a reconciliation of f, a start
\* in f that was not refused, or a completion in f, with f's file in place.
ComputesProgress(f) ==
    /\ disk'[f].exists
    /\ \/ last'.op = "reconcile" /\ Reconciles(f)
       \/ /\ last'.op = "start"
          /\ \E i \in Indices :
                 startTaskImplementation(f, i) /\ ~ startRefused(f, i, disk)
       \/ last'.op = "complete" /\ CompletesActive /\ currentTaskState.feature = f

\* C7: whenever progress is computed for feature f with reconciled state
\* Implementing(f, i), the snapshot's currentTask is i, index 0 included.
\* Stated for an active item that f's file lists as not completed.
C7_CurrentTaskIsActiveIndex ==
    [][ \A f \in Features :
          ( /\ ComputesProgress(f)
            /\ ActiveItemPending(currentTaskState', disk')
            /\ currentTaskState'.feature = f )
          => taskProgress'.currentTask = currentTaskState'.taskIndex ]_vars

\* C8: whenever progress is computed for feature g while the active task is
\* null or refers to another feature, the snapshot's currentTask is null.
\* Stated for an active item that its own feature's file lists as not
\* completed.
C8_CurrentTaskNullForOtherFeature ==
    [][ \A g \in Features :
          ( /\ ComputesProgress(g)
            /\ \/ currentTaskState' = NoTask
               \/ /\ currentTaskState'.feature # g
                  /\ ActiveItemPending(currentTaskState', disk') )
          => taskProgress'.currentTask = Null ]_vars

\* C9: whenever startTask(f, i) creates the active task, item i exists in
\* f's parsed list and is not completed; an index outside the list creates
\* none.  Stated for a feature whose file is in place.
C9_StartedItemExistsAndIsIncomplete ==
    [][ \A f \in Features, i \in Indices :
          ( /\ startTaskImplementation(f, i)
            /\ disk[f].exists
            /\ currentTaskState' = TaskState(f, i)
            /\ last'.outcome = "started" )
          => ItemIncomplete(TasksIn(disk, f), i) ]_vars

\* C10: when the tasks document of the addressed feature cannot be located,
\* start, complete and reconcile leave the active task and the published
\* snapshot as they were.
C10_MissingDocumentIsNoOp ==
    [][ \A f \in Features :
          ( /\ ~ disk[f].exists
            /\ \/ \E i \in Indices : startTaskImplementation(f, i)
               \/ CompletesActive /\ currentTaskState.feature = f
               \/ reconcile(f, disk) /\ disk' = disk )
          => /\ currentTaskState' = currentTaskState
             /\ taskProgress' = taskProgress ]_vars


\* This step is a handler run while the workspace store fails.
FaultyStep == StartTaskFaulty \/ CompleteTaskFaulty \/ ReconcileFaulty

\* C11: no failure of the workspace store inside startTask, completeTask or
\* a reconciliation reaches the caller as an error; the handler ends
\* normally with the active task unchanged.
C11_StoreFailureEndsNormally ==
    [][ ( /\ last'.op \in { "start", "complete", "reconcile" }
          /\ FaultyStep )
        => /\ last'.outcome # "threw"
           /\ currentTaskState' = currentTaskState ]_vars

\* C12: the process holds at most one active task, and startTask(g, j) on an
\* incomplete item j ends in Implementing(g, j) whatever the active task was
\* before: the request replaces it.
C12_StartReplacesActiveTask ==
    /\ [] ( currentTaskState \in
                { NoTask } \cup { TaskState(f, i) : f \in Features, i \in Indices } )
    /\ [][ \A g \in Features, j \in Indices :
             ( /\ last'.op = "start"
               /\ last'.feature = g
               /\ disk[g].exists
               /\ ItemIncomplete(TasksIn(disk, g), j)
               /\ startTaskImplementation(g, j) )
             => /\ currentTaskState' = TaskState(g, j)
                /\ last'.outcome = "started" ]_vars

\* A start request on an incomplete item has just made that item the active
\* task.
C12_Witness ==
    /\ last.op = "start"
    /\ last.outcome = "started"
    /\ disk[last.feature].exists
    /\ currentTaskState # NoTask
    /\ currentTaskState.feature = last.feature
    /\ currentTaskState.taskIndex > 0
    /\ ItemIncomplete(TasksIn(disk, last.feature), currentTaskState.taskIndex)

\* C13: every published snapshot has totalTasks equal to the number of parsed
\* items of the feature's file and completedTasks equal to the number of
\* those that are completed, so 0 <= completedTasks <= totalTasks, after any
\* sequence of start, complete, reconcile and external edit steps.
C13_SnapshotCountsParsedItems ==
    /\ [] ( /\ 0 <= taskProgress.completedTasks
            /\ taskProgress.completedTasks <= taskProgress.totalTasks )
    /\ [][ \A f \in Features :
             ( /\ last'.op \in { "start", "complete", "reconcile" }
               /\ last'.feature = f
               /\ ComputesProgress(f) )
             => LET tasks == TasksIn(disk', f)
                IN  /\ taskProgress'.totalTasks = Len(tasks)
                    /\ taskProgress'.completedTasks =
                           Cardinality({ k \in 1 .. Len(tasks) : tasks[k].completed }) ]_vars

\* A snapshot was just published over a file with one completed item and
\* one that is not.
C13_Witness ==
    /\ last.op \in { "start", "complete", "reconcile" }
    /\ last.feature \in Features
    /\ disk[last.feature].exists
    /\ Len(TasksIn(disk, last.feature)) = 2
    /\ taskProgress.totalTasks = 2
    /\ taskProgress.completedTasks = 1

\* The document of the parse that ran last, and the items it returned.
ParsedDoc == disk[last.feature].lines

ParsedItems == last.result.tasks

\* The parse that ran last read its file.
Parsed == last.op = "parse" /\ last.outcome = "returned"

\* Line number k (from 1) of the parsed document gave an item.
GaveItem(k) == \E j \in 1 .. Len(ParsedItems) : ParsedItems[j].line = k - 1

\* C14: parse(D) has exactly one item per line of D that matches the
\* checklist pattern, in line order; the index values are 0 .. n-1, each
\* item's line is the zero-based number of its source line, so lines are
\* strictly increasing and index <= line.
C14_OneItemPerMatchingLine ==
    Parsed =>
        LET matching == { k \in 1 .. Len(ParsedDoc) : taskMatch(ParsedDoc[k]) > 0 }
        IN  /\ Len(ParsedItems) = Cardinality(matching)
            /\ \A k \in matching : GaveItem(k)
            /\ \A j \in 1 .. Len(ParsedItems) :
                   /\ ParsedItems[j].index = j - 1
                   /\ ParsedItems[j].line + 1 \in matching
                   /\ ParsedItems[j].index <= ParsedItems[j].line
                   /\ j > 1 => ParsedItems[j - 1].line < ParsedItems[j].line

\* A parse returned an item whose index is smaller than its line number: a
\* line that is no task came before it.
C14_Witness ==
    /\ Parsed
    /\ \E j \in 1 .. Len(ParsedItems) : ParsedItems[j].index < ParsedItems[j].line

\* The characters s have the shape: a whitespace characters, "-", b
\* whitespace characters, "[", "x" or " ", "]", and then the rest of the line.
ShapedAt(s, a, b) ==
    /\ a + b + 4 <= Len(s)
    /\ \A k \in 1 .. a : IsSpace(s[k])
    /\ s[a + 1] = "-"
    /\ \A k \in (a + 2) .. (a + b + 1) : IsSpace(s[k])
    /\ s[a + b + 2] = "["
    /\ s[a + b + 3] \in { "x", " " }
    /\ s[a + b + 4] = "]"

\* The persisted wire shape: optional whitespace, "-", at least one
\* whitespace, "[", "x" or " ", "]", at least one whitespace, then
\* description text.
WireShape(s) ==
    \E a \in 0 .. Len(s), b \in 1 .. Len(s), c \in 1 .. Len(s) :
        /\ ShapedAt(s, a, b)
        /\ a + b + 4 + c < Len(s)
        /\ \A k \in (a + b + 5) .. (a + b + 4 + c) : IsSpace(s[k])
        /\ \A k \in (a + b + 5) .. Len(s) : s[k] \notin { "\n", "\r" }

\* The shape with the whitespace after "-" and after "]" optional: after
\* "]" at least one more character, none of them a line terminator.
LooseShape(s) ==
    \E a \in 0 .. Len(s), b \in 0 .. Len(s) :
        /\ ShapedAt(s, a, b)
        /\ a + b + 4 < Len(s)
        /\ \A k \in (a + b + 5) .. Len(s) : s[k] \notin { "\n", "\r" }

HasFlag(s) == \E k \in 1 .. Len(s) - 1 : s[k] = "["

\* The character after the first "[" of s.
Flag(s) ==
    LET k == CHOOSE i \in 1 .. Len(s) - 1 : s[i] = "[" /\ \A j \in 1 .. i - 1 : s[j] # "["
    IN  s[k + 1]

\* C16: a checklist line whose bracketed flag is any character other than
\* lowercase "x" or a space yields no item; an item is completed exactly when
\* the flag of its line is "x" and incomplete exactly when it is a space.
C16_FlagDecidesCompletion ==
    Parsed =>
        /\ \A k \in 1 .. Len(ParsedDoc) :
               LET s == Chars[ParsedDoc[k]]
               IN  ( HasFlag(s) /\ Flag(s) \notin { "x", " " } ) => ~ GaveItem(k)
        /\ \A j \in 1 .. Len(ParsedItems) :
               LET s == Chars[ParsedDoc[ParsedItems[j].line + 1]]
               IN  /\ ParsedItems[j].completed <=> Flag(s) = "x"
                   /\ ~ ParsedItems[j].completed <=> Flag(s) = " "

\* A parse of a document with a line flagged "X" and a line flagged "x"
\* returned one item, a completed one.
C16_Witness ==
    /\ Parsed
    /\ \E k \in 1 .. Len(ParsedDoc) : ParsedDoc[k] = UpperX
    /\ \E k \in 1 .. Len(ParsedDoc) : ParsedDoc[k] \in { DoneA, Indented }
    /\ Len(ParsedItems) = 1
    /\ ParsedItems[1].completed

\* C17: parsing is total.  For the empty document, a document with no
\* checklist line, malformed lines and a document that cannot be read, the
\* parser returns the empty list; it never throws to its caller.
C17_ParsingIsTotal ==
    last.op = "parse" =>
        /\ ~ last.result.threw
        /\ ( \/ last.outcome = "caught"
             \/ \A k \in 1 .. Len(ParsedDoc) : ~ LooseShape(Chars[ParsedDoc[k]]) )
           => ParsedItems = << >>

\* A parse of a file that could not be read, and that holds a checklist
\* line, returned the empty list.
C17_Witness ==
    /\ last.op = "parse"
    /\ last.outcome = "caught"
    /\ \E k \in 1 .. Len(ParsedDoc) : ParsedDoc[k] = TodoA
    /\ ParsedItems = << >>
    /\ ~ last.result.threw

\* C19: for every published snapshot with totalTasks > 0 the status bar
\* shows the task as being implemented exactly when the snapshot's
\* currentTask is not null and completedTasks < totalTasks: a function of
\* the snapshot alone.
C19_IsActiveFromSnapshotAlone ==
    taskProgress.totalTasks > 0 =>
        ( statusBar.isImplementing <=>
              ( /\ taskProgress.currentTask # Null
                /\ taskProgress.completedTasks < taskProgress.totalTasks ) )

\* C20: for every snapshot with totalTasks > 0 the status bar shows the
\* percentage round-half-up(100 * completedTasks / totalTasks): an integer
\* in 0 .. 100, 0 when nothing is completed and 100 when everything is.
C20_PercentRoundsHalfUp ==
    last.op = "present" /\ taskProgress.totalTasks > 0 =>
        /\ statusBar.percent =
               (200 * taskProgress.completedTasks + taskProgress.totalTasks)
                   \div (2 * taskProgress.totalTasks)
        /\ statusBar.percent \in 0 .. 100
        /\ taskProgress.completedTasks = 0 => statusBar.percent = 0
        /\ taskProgress.completedTasks = taskProgress.totalTasks => statusBar.percent = 100

\* C21: whenever the published snapshot has totalTasks = 0 the status bar
\* shows the ready summary and no task as being implemented, whatever the
\* active task is.
C21_NoTasksShowsReady ==
    taskProgress.totalTasks = 0 =>
        /\ statusBar.ready
        /\ ~ statusBar.isImplementing

\* A task was started in a tasks file that lists no items: the snapshot has
\* no tasks while a task is active, and the status bar shows the ready
\* summary.
C21_Witness ==
    /\ last.op = "start"
    /\ last.outcome = "started"
    /\ currentTaskState # NoTask
    /\ disk[last.feature].exists
    /\ taskProgress.totalTasks = 0
    /\ statusBar.ready

\* The text the marking that ran last started from and the text it left, the
\* index it was given, and the parser's items of the two texts.
MarkedBefore == last.before

MarkedAfter == buf[last.feature].lines

MarkedIndex == last.index

ItemsBefore == parseLines(MarkedBefore, 1, << >>)

ItemsAfter == parseLines(MarkedAfter, 1, << >>)

\* The marking that ran last applied its edit.
Marked == last.op = "mark" /\ last.outcome = "written"

\* C22: the line that marking task N selects is the line of the item with
\* index N in the parser's result for the same text, for every document and
\* every N (no line when the parser has no item N).
C22_MarkSelectsParsedItem ==
    last.op = "mark" =>
        markTarget(MarkedBefore, MarkedIndex, 1, 0)
            = IF MarkedIndex < Len(ItemsBefore)
              THEN ItemsBefore[MarkedIndex + 1].line + 1
              ELSE 0

\* C23: marking an incomplete task changes, on its line, only the character
\* inside the brackets, from a space to "x": indentation, spacing and
\* description are kept.
C23_MarkRewritesOnlyTheFlag ==
    Marked =>
        LET t == markTarget(MarkedBefore, MarkedIndex, 1, 0)
            s == Chars[MarkedBefore[t]]
            p == MatchHead(s, { " " })
        IN  p > 0 => Chars[MarkedAfter[t]] = [ s EXCEPT ![p - 1] = "x" ]

\* C28: marking task N changes at most one line; the number of lines and of
\* checklist entries stays, no entry goes from completed to incomplete, and
\* the number of completed entries grows by 1 when entry N was incomplete
\* and by 0 otherwise.
C28_MarkChangesOneEntry ==
    Marked =>
        /\ Len(MarkedAfter) = Len(MarkedBefore)
        /\ Cardinality({ k \in 1 .. Len(MarkedBefore) : MarkedAfter[k] # MarkedBefore[k] }) <= 1
        /\ Len(ItemsAfter) = Len(ItemsBefore)
        /\ \A k \in 1 .. Len(ItemsBefore) :
               ItemsBefore[k].completed => ItemsAfter[k].completed
        /\ completedCount(ItemsAfter)
               = completedCount(ItemsBefore)
                 + (IF ItemIncomplete(ItemsBefore, MarkedIndex) THEN 1 ELSE 0)

\* C29: marking is idempotent.  Marking an entry that is already completed
\* leaves the text as it was, and marking the entry again after it was
\* marked gives the same text.
C29_MarkIsIdempotent ==
    Marked =>
        /\ ItemCompleted(ItemsBefore, MarkedIndex) => MarkedAfter = MarkedBefore
        /\ markedText(MarkedAfter, MarkedIndex) = MarkedAfter

\* C26: the reconciliation that a save triggers reads the file again and
\* parses what the save wrote: the snapshot it publishes counts the items of
\* the saved text, whatever was parsed before the save.
C26_SaveReconcilesSavedContent ==
    [][ \A f \in Edited :
          ( /\ last'.op = "reconcile"
            /\ last'.feature = f
            /\ buf[f].open
            /\ SaveDocument )
          => LET tasks == parseTasksFromFile(buf[f].lines)
             IN  /\ disk'[f] = File(buf[f].lines)
                 /\ taskProgress'.totalTasks = Len(tasks)
                 /\ taskProgress'.completedTasks = completedCount(tasks)
                 /\ last'.outcome = "cleared"
                        <=> autoClears(currentTaskState, tasks) ]_vars

\* A reconciliation has published a snapshot that counts a completed item
\* of the document open in the editor, whose text is the file's.
C26_Witness ==
    /\ last.op = "reconcile"
    /\ last.feature \in Edited
    /\ buf[last.feature].open
    /\ disk[last.feature] = File(buf[last.feature].lines)
    /\ taskProgress.totalTasks = Len(TasksIn(disk, last.feature))
    /\ taskProgress.completedTasks > 0

\* C27: the active task changes only in the tracker's steps.  It becomes
\* Implementing(f, i) only in startTask(f, i); it becomes null only in
\* completeTask or in a reconciliation that finds the active item completed
\* in its feature's file; computing CodeLenses and showing the progress
\* leave the active task and the snapshot as they were.  The clearing is
\* stated for an active task whose item its feature's file lists.
C27_OnlyTrackerChangesActiveTask ==
    [][ /\ ( currentTaskState' # currentTaskState /\ currentTaskState' # NoTask )
            => /\ last'.op = "start"
               /\ currentTaskState'.feature = last'.feature
        /\ ( /\ currentTaskState' # currentTaskState
             /\ currentTaskState' = NoTask
             /\ disk'[currentTaskState.feature].exists
             /\ currentTaskState.taskIndex
                    < Len(TasksIn(disk', currentTaskState.feature)) )
            => \/ last'.op = "complete"
               \/ /\ last'.op = "reconcile"
                  /\ ItemCompleted(TasksIn(disk', currentTaskState.feature),
                                   currentTaskState.taskIndex)
        /\ last'.op \in { "codeLens", "showProgress" }
            => UNCHANGED << currentTaskState, taskProgress >> ]_vars

\* C30: in every published snapshot a currentTask that is not null is an
\* index into the task list the totals were computed from:
\* 0 <= currentTask < totalTasks.  Stated for an active item that its
\* feature's file lists as not completed.
C30_CurrentTaskIsValidIndex ==
    [][ \A f \in Features :
          ( /\ ComputesProgress(f)
            /\ taskProgress'.currentTask # Null
            /\ ActiveItemPending(currentTaskState', disk') )
          => /\ 0 <= taskProgress'.currentTask
             /\ taskProgress'.currentTask < taskProgress'.totalTasks ]_vars

\* C24: completeActiveTask clears only the active task it read when it
\* began, under any interleaving of other handlers at its awaits: it never
\* clears an Implementing(g, j) that a startTask installed in the meantime.
C24_CompleteClearsTheTaskItRead ==
    [][ ( /\ last'.op = "complete"
          /\ last'.outcome = "cleared"
          /\ currentTaskState # NoTask )
        => currentTaskState = TaskState(last'.feature, last'.taskIndex) ]_vars

\* C25: triggers are processed one after another: a handler that has begun
\* runs to its end before another handler runs a step, so at most one
\* handler is in progress at any time.
C25_OneHandlerAtATime ==
    Cardinality(running) <= 1

\* C31: when completeTask returns after writing the completion marker of
\* task i, the snapshot it published counts the completed entries of the
\* text that now holds the marker, the edited editor buffer.  Stated for an
\* active item that the file lists as not completed.
C31_CompletionSnapshotCountsMarker ==
    [][ ( /\ last'.op = "complete"
          /\ last'.outcome = "written"
          /\ CompletesActive
          /\ ActiveItemPending(currentTaskState, disk) )
        => taskProgress'.completedTasks
               = completedCount(parseTasksFromFile(buf'[currentTaskState.feature].lines)) ]_vars

\* C32: when reconciliations overlap at their awaits, the snapshot that
\* stays published once all of them have finished is the one computed from
\* the most recent content.  Every save triggers a reconciliation, so once
\* all have finished the most recent content read is the file as it is.
C32_LatestContentStaysPublished ==
    \A f \in Edited :
        ( /\ running = { }
          /\ last = Ran("reconcile", f, "finished") )
        => LET tasks == TasksIn(disk, f)
           IN  /\ taskProgress.totalTasks = Len(tasks)
               /\ taskProgress.completedTasks = completedCount(tasks)

\* The lenses that provideCodeLenses returned last, the document they are
\* for, and the parser's items of that document.
Lenses == last.result

LensDoc == buf[last.feature].lines

LensItems == parseLines(LensDoc, 1, << >>)

\* C33: the task index that the 'Start Task' lens of a line passes to
\* startTask is the index the parser gives that line, for every document:
\* the lenses and the parser's items are on the same lines, in the same
\* order.
C33_LensIndexIsParserIndex ==
    last.op = "codeLens" =>
        /\ Len(Lenses) = Len(LensItems)
        /\ \A k \in 1 .. Len(Lenses) :
               /\ k <= Len(LensItems)
               /\ Lenses[k].line = LensItems[k].line
               /\ Lenses[k].title = "Start Task"
                      => Lenses[k].taskIndex = LensItems[k].index

\* C34: the lenses agree with the state.  A completed line never offers
\* 'Start Task'; a line shows 'Implementing...' only if it is incomplete
\* and the active task is Implementing(f, i), f the feature of the document
\* shown and i the line's index; every other incomplete line offers 'Start
\* Task' for its feature and index.
C34_LensesAgreeWithState ==
    last.op = "codeLens" =>
        \A k \in 1 .. Len(Lenses) :
            LET done   == Chars[LensDoc[Lenses[k].line + 1]][lensMatch(LensDoc[Lenses[k].line + 1]) - 1] = "x"
                active == currentTaskState = TaskState(last.feature, k - 1)
            IN  /\ done => Lenses[k].title # "Start Task"
                /\ Lenses[k].title = "Implementing..." => ~ done /\ active
                /\ ( ~ done /\ ~ active )
                       => /\ Lenses[k].title = "Start Task"
                          /\ Lenses[k].feature = last.feature
                          /\ Lenses[k].taskIndex = k - 1

\* C35: completeTask with no active task does nothing.  The files and the
\* documents stay as they were, the active task stays null, and the
\* snapshot and the status bar are unchanged.
C35_CompleteWhileIdleDoesNothing ==
    [][ ( last'.op = "complete" /\ currentTaskState = NoTask )
            => /\ disk' = disk
               /\ buf' = buf
               /\ currentTaskState' = NoTask
               /\ taskProgress' = taskProgress
               /\ statusBar' = statusBar ]_vars

\* completeTask has run with no active task over a snapshot that counts
\* tasks and an open document that lists a pending item.
C35_Witness ==
    /\ last = Ran("complete", "", "idle")
    /\ currentTaskState = NoTask
    /\ taskProgress.totalTasks > 0
    /\ \E f \in Edited :
          /\ buf[f].open
          /\ \E i \in Indices : ItemIncomplete(parseTasksFromFile(buf[f].lines), i)

\* C36: injectConfig leaves every file that exists in the workspace as it
\* is.  Of the bundled files, those whose target existed when the
\* invocation began with a different trimmed content are the conflicts, and
\* only targets that were absent are created, so that the two counters add
\* up to at most the number of bundled files; every target that existed
\* keeps its content.
InjectedAbsent == { k \in 1 .. Len(bundledFiles) : ~ last'.before[bundledFiles[k].relativePath].exists }

InjectedDiffering ==
    { k \in 1 .. Len(bundledFiles) :
        /\ last'.before[bundledFiles[k].relativePath].exists
        /\ ~ compareFileContents(bundledFiles[k].content,
                                 last'.before[bundledFiles[k].relativePath].lines[1]) }

C36_InjectionKeepsExistingFiles ==
    [][ /\ \A p \in TargetPaths : disk[p].exists => disk'[p] = disk[p]
        /\ ( last'.op = "inject" /\ last'.outcome = "completed" )
              => /\ last'.conflictCount = Cardinality(InjectedDiffering)
                 /\ last'.copiedCount <= Cardinality(InjectedAbsent)
                 /\ last'.copiedCount + last'.conflictCount <= Len(bundledFiles)
                 /\ \A p \in TargetPaths :
                       last'.before[p].exists => disk'[p] = last'.before[p] ]_vars

\* An invocation has completed with one file created and one conflict, the
\* conflicting target holding the content it had.
C36_Witness ==
    /\ last.op = "inject"
    /\ last.outcome = "completed"
    /\ last.copiedCount = 1
    /\ last.conflictCount = 1
    /\ \E p \in TargetPaths : last.before[p].exists /\ disk[p] = last.before[p]

\* C37: isSpecComplete agrees with the parser.  For a feature that has its
\* three phase files and a tasks file that is read, isSpecComplete is false
\* when the parser gives an item that is not completed, and true when it
\* gives none.
C37_CompleteAgreesWithParser ==
    ( /\ last.op = "isSpecComplete"
      /\ last.outcome = "returned"
      /\ requiredPhases \subseteq last.files )
        => LET tasks == parseLines(disk[last.feature].lines, 1, << >>)
           IN  last.result = ( \A k \in 1 .. Len(tasks) : tasks[k].completed )

\* C38: once initialize() has completed, getCurrentConfig() returns a
\* configuration and not null, also while a watcher's handler has
\* invalidated the cache and its discovery is in flight or has failed.
C38_ConfigAfterInitialize ==
    [][ ( isInitialized /\ last'.op = "getCurrentConfig" /\ last'.outcome = "returned" )
            => last'.result = "config" ]_vars

\* C39: truncateContent keeps to the length.  For every content, maxLength
\* and suffix the result is at most maxLength characters long, and it is
\* the content itself exactly when the content is at most maxLength
\* characters long.
C39_TruncatedToMaxLength ==
    last.op = "truncateContent"
        => /\ Len(last.result) <= last.arguments.maxLength
           /\ ( last.result = last.arguments.content )
                 <=> ( Len(last.arguments.content) <= last.arguments.maxLength )

====
